---- MODULE Spec2Model ----
(***************************************************************************)
(* Model of app.py, the Streamlit crop recommender: load_data, train_model *)
(* and the module-level script with its button handler.                    *)
(*                                                                         *)
(* Text.  A column label is a sequence of atoms.  An atom is one of the    *)
(* four characters the normalisation looks at (" ", "\t", "(", ")") or a   *)
(* chunk of other characters.  TLA+ strings are ASCII, so the Chinese      *)
(* chunks of the source are written in pinyin:                             *)
(*   zhongzhiyue = U+79CD U+690D U+6708    yuefen = U+6708 U+4EFD          *)
(*   wendu = U+6E29 U+5EA6                 degC   = U+2103                 *)
(*   jiangyu = U+964D U+96E8               turang = U+571F U+58E4          *)
(*   zhi = U+503C                          zuowu  = U+4F5C U+7269          *)
(*   changjianwenti = U+5E38 U+89C1 U+95EE U+9898                          *)
(*   chanliangdengji = U+4EA7 U+91CF U+7B49 U+7EA7                         *)
(* Two labels are the same string exactly when they are the same sequence  *)
(* of atoms (no chunk is a concatenation of other chunks).                 *)
(***************************************************************************)
EXTENDS Integers, Sequences, FiniteSets, TLC

VARIABLES
    csvKind,        \* crop_data.csv on disk: how its bytes are encoded
    csvHeader,      \* crop_data.csv: the header line, one raw label per column
    csvCrops,       \* crop_data.csv: the crop labels of its rows ({} = no row)
    pkl,            \* model.pkl on disk
    sklearnStrict,  \* whether the installed scikit-learn rejects mismatched feature names
    cache,          \* st.cache_data entry of load_data
    df,             \* module-level df of the current script run
    tried,          \* encodings the last load_data call handed to read_csv
    model,          \* handler variable model
    selected_cols,  \* train_model's selected_cols
    inputs,         \* the widgets' values (month, temp, rain, ph)
    clicked,        \* st.button's value in the current script run
    crop,           \* handler variable crop
    ui,             \* elements the current script run has displayed
    pc,             \* position of the current script run
    found,          \* what joblib.load met in the current run
    runs,           \* script runs started after the first
    trainTotal      \* train_model calls that returned a model, over the session

vars == <<csvKind, csvHeader, csvCrops, pkl, sklearnStrict, cache, df, tried, model,
          selected_cols, inputs, clicked, crop, ui, pc, found, runs, trainTotal>>

env == <<csvKind, csvHeader, csvCrops, sklearnStrict>>

----------------------------------------------------------------------------
(* Bounds *)

\* script reruns explored after the first run
MaxRuns == 2

\* longest raw label explored by the normalisation specification
MaxLen == 3

----------------------------------------------------------------------------
(* Text *)

SP == " "

TAB == "\t"

LP == "("

RP == ")"

\* what str.strip removes at the ends (the space, and other white space such as the tab)
Whitespace == {SP, TAB}

RECURSIVE LStrip(_)
LStrip(s) ==
    IF s = <<>> THEN s
    ELSE IF Head(s) \in Whitespace THEN LStrip(Tail(s)) ELSE s

RECURSIVE RStrip(_)
RStrip(s) ==
    IF s = <<>> THEN s
    ELSE IF s[Len(s)] \in Whitespace THEN RStrip(SubSeq(s, 1, Len(s) - 1)) ELSE s

\* str.strip()
Strip(s) == RStrip(LStrip(s))

\* str.replace(ch, '')
Replace(s, ch) == SelectSeq(s, LAMBDA c : c # ch)

\* .str.strip().str.replace(' ', '').str.replace('(', '').str.replace(')', '')
NormalizeColumn(s) == Replace(Replace(Replace(Strip(s), SP), LP), RP)

NormalizeColumns(h) == [i \in 1..Len(h) |-> NormalizeColumn(h[i])]

----------------------------------------------------------------------------
(* Column names of the source *)

ZhongZhiYue == <<"zhongzhiyue">>

YueFen == <<"yuefen">>

Month == <<"month">>

WenDuC == <<"wendu", "degC">>

WenDu == <<"wendu">>

Temp == <<"temp">>

JiangYuMm == <<"jiangyu", "mm">>

JiangYu == <<"jiangyu">>

Rain == <<"rain">>

TuRangPH == <<"turang", "pH">>

PHZhi == <<"pH", "zhi">>

Ph == <<"ph">>

ZuoWu == <<"zuowu">>

Crop == <<"crop">>

ChangJianWenTi == <<"changjianwenti">>

ChanLiangDengJi == <<"chanliangdengji">>

\* col_mapping, and the order in which its items are visited
col_mapping ==
    [month |-> <<ZhongZhiYue, YueFen, Month>>,
     temp  |-> <<WenDuC, WenDu, Temp>>,
     rain  |-> <<JiangYuMm, JiangYu, Rain>>,
     ph    |-> <<TuRangPH, PHZhi, Ph>>,
     crop  |-> <<ZuoWu, Crop>>]

RoleOrder == <<"month", "temp", "rain", "ph", "crop">>

\* the columns the handler names in input_data
InputColumns == <<ZhongZhiYue, WenDuC, JiangYuMm, TuRangPH>>

\* the column the handler filters on to find the crop's record
LookupColumn == ZuoWu

\* the columns the handler reads in the first and in the second panel
Col1Columns == {WenDuC, JiangYuMm, TuRangPH}

Col2Columns == {ChangJianWenTi, ChanLiangDengJi}

Range(s) == {s[i] : i \in 1..Len(s)}

----------------------------------------------------------------------------
(* crop_data.csv and pandas.read_csv *)

\* encodings = ['utf-8', 'gbk', 'utf-16', 'utf-8-sig']
encodings == <<"utf-8", "gbk", "utf-16", "utf-8-sig">>

\* Kinds of file.  ascii: bytes below 0x80 only.  utf8, utf8sig (with the
\* signature EF BB BF), gbk: Chinese text in that encoding.  utf16: UTF-16 with
\* a byte order mark.  utf16_truncated: a UTF-16 byte order mark followed by
\* malformed UTF-16.  unlisted: bytes that are neither UTF-8 nor GBK and start
\* with no byte order mark.  empty: a file of zero bytes.  missing: no file.
LoadableKinds == {"ascii", "utf8", "utf8sig", "gbk", "utf16"}

FileKinds == LoadableKinds \cup {"utf16_truncated", "unlisted", "empty", "missing"}

\* the encodings whose decoder accepts the bytes of a file of this kind
Decodes(kind) ==
    CASE kind = "ascii"   -> {"utf-8", "gbk", "utf-8-sig"}
      [] kind = "utf8"    -> {"utf-8", "utf-8-sig"}
      [] kind = "utf8sig" -> {"utf-8", "utf-8-sig"}
      [] kind = "gbk"     -> {"gbk"}
      [] kind = "utf16"   -> {"utf-16"}
      [] OTHER            -> {}

\* pd.read_csv('crop_data.csv', encoding=enc): "ok" or the exception raised.
\* The utf-16 decoder raises UnicodeError (not UnicodeDecodeError) on a stream
\* that does not start with a byte order mark.
read_csv(kind, enc) ==
    IF kind = "missing" THEN "FileNotFoundError"
    ELSE IF kind = "empty" THEN "EmptyDataError"
    ELSE IF enc \in Decodes(kind) THEN "ok"
    ELSE IF enc = "utf-16" /\ kind # "utf16_truncated" THEN "UnicodeError"
    ELSE "UnicodeDecodeError"

\* except (UnicodeDecodeError, FileNotFoundError): continue
Caught == {"UnicodeDecodeError", "FileNotFoundError"}

\* The for loop of load_data from encodings[i] on: the encodings handed to
\* read_csv so far, and how the loop ends: "ok" (return df), "exhausted" (the
\* st.error/st.stop after the loop) or "raised" (an exception leaves load_data).
RECURSIVE TryEncodings(_, _, _)
TryEncodings(kind, i, done) ==
    IF i > Len(encodings) THEN [tried |-> done, end |-> "exhausted"]
    ELSE LET r == read_csv(kind, encodings[i])
             t == Append(done, encodings[i])
         IN  IF r = "ok" THEN [tried |-> t, end |-> "ok"]
             ELSE IF r \in Caught THEN TryEncodings(kind, i + 1, t)
             ELSE [tried |-> t, end |-> "raised"]

load_data(kind) == TryEncodings(kind, 1, <<>>)

NoDf == [loaded |-> FALSE, columns |-> <<>>, crops |-> {}]

\* the data frame read_csv returns, its columns renamed
Frame(header, crops) == [loaded |-> TRUE, columns |-> NormalizeColumns(header), crops |-> crops]

----------------------------------------------------------------------------
(* model.pkl and the classifier *)

Absent == [kind |-> "absent", features |-> <<>>, classes |-> {}]

\* a file joblib.load cannot unpickle
Corrupt == [kind |-> "corrupt", features |-> <<>>, classes |-> {}]

\* DecisionTreeClassifier fitted on X (its column names are kept as
\* feature_names_in_) and y (its distinct values are kept as classes_)
Fitted(features, classes) == [kind |-> "model", features |-> features, classes |-> classes]

NoModel == [kind |-> "none", features |-> <<>>, classes |-> {}]

----------------------------------------------------------------------------
(* train_model: column resolution *)

NoMap == [r \in {} |-> <<>>]

\* A variant that walks the frame's columns instead and takes the first column
\* that is one of the names.
RECURSIVE FirstColumnNamed(_, _, _)
FirstColumnNamed(possible_names, columns, i) ==
    IF i > Len(columns) THEN 0
    ELSE IF columns[i] \in Range(possible_names)
    THEN CHOOSE n \in 1..Len(possible_names) : possible_names[n] = columns[i]
    ELSE FirstColumnNamed(possible_names, columns, i + 1)

\* for name in possible_names: if name in df.columns: ... break
\* the index of the first name that is a column, 0 when the loop ends without break
RECURSIVE FirstPresent(_, _, _)
FirstPresent(possible_names, columns, i) ==
    IF i > Len(possible_names) THEN 0
    ELSE IF possible_names[i] \in Range(columns) THEN i
    ELSE FirstPresent(possible_names, columns, i + 1)

\* for col_type, possible_names in col_mapping.items(): from RoleOrder[k] on
RECURSIVE ResolveFrom(_, _, _)
ResolveFrom(k, columns, acc) ==
    IF k > Len(RoleOrder) THEN [ok |-> TRUE, selected |-> acc, names |-> <<>>]
    ELSE LET col_type == RoleOrder[k]
             possible_names == col_mapping[col_type]
             n == FirstPresent(possible_names, columns, 1)
         IN  IF n = 0
             THEN [ok |-> FALSE, selected |-> acc, names |-> possible_names]
             ELSE ResolveFrom(k + 1, columns, acc @@ (col_type :> possible_names[n]))

\* A variant without the for loop's else clause: a role with no column keeps
\* the first of its names.
ResolveWithDefault(columns) ==
    [ok |-> TRUE,
     selected |-> [r \in Range(RoleOrder) |->
                     LET n == FirstPresent(col_mapping[r], columns, 1)
                     IN  col_mapping[r][IF n = 0 THEN 1 ELSE n]],
     names |-> <<>>]

Resolve(columns) == ResolveFrom(1, columns, NoMap)

----------------------------------------------------------------------------
(* What a script run displays *)

Msg(kind, label, names) == [kind |-> kind, crop |-> label, names |-> names]

Show(kind) == Msg(kind, "", <<>>)

Kinds(s) == {s[i].kind : i \in 1..Len(s)}

----------------------------------------------------------------------------
(* The files a session can start with *)

HCanonical == <<ZhongZhiYue, WenDuC, JiangYuMm, TuRangPH, ZuoWu, ChangJianWenTi, ChanLiangDengJi>>

\* the canonical names as a spreadsheet export writes them, with spaces and parentheses
HRaw ==
    << <<SP, "zhongzhiyue">>, <<"wendu", LP, "degC", RP>>, <<"jiangyu", SP, LP, "mm", RP>>,
       <<"turang", SP, "pH", SP>>, <<TAB, "zuowu">>, ChangJianWenTi, ChanLiangDengJi >>

HSecond == <<YueFen, WenDu, JiangYu, PHZhi, Crop, ChangJianWenTi, ChanLiangDengJi>>

HEnglish == <<Month, Temp, Rain, Ph, Crop>>

HEnglishNoMonth == <<Temp, Rain, Ph, Crop>>

\* two aliases of every role, the later-listed alias in the earlier column
HBoth ==
    <<Month, ZhongZhiYue, Temp, WenDuC, Rain, JiangYuMm, Ph, TuRangPH, Crop, ZuoWu,
      ChangJianWenTi, ChanLiangDengJi>>

\* the same columns in the opposite order
HBothReversed == [i \in 1..Len(HBoth) |-> HBoth[Len(HBoth) + 1 - i]]

HNoCrop == <<ZhongZhiYue, WenDuC, JiangYuMm, TuRangPH, ChangJianWenTi, ChanLiangDengJi>>

HNoPh == <<ZhongZhiYue, WenDuC, JiangYuMm, ZuoWu, ChangJianWenTi, ChanLiangDengJi>>

HNoIssues == <<ZhongZhiYue, WenDuC, JiangYuMm, TuRangPH, ZuoWu, ChanLiangDengJi>>

\* an ASCII file holds ASCII labels only
Headers(kind) ==
    IF kind = "ascii" THEN {HEnglish, HEnglishNoMonth}
    ELSE IF kind \in LoadableKinds
    THEN {HCanonical, HRaw, HSecond, HEnglish, HBoth, HBothReversed, HNoCrop, HNoPh, HNoIssues}
    ELSE {<<>>}

CropSets(kind) == IF kind \in LoadableKinds THEN {{}, {"Rice"}, {"Rice", "Maize"}} ELSE {{}}

\* model.pkl as an earlier session, or something else, left it
PklStates ==
    {Absent, Corrupt, Fitted(InputColumns, {"Rice"}), Fitted(InputColumns, {"Maize"}),
     Fitted(<<YueFen, WenDu, JiangYu, PHZhi>>, {"Rice"})}

----------------------------------------------------------------------------
(* The widgets *)

MonthMin == 1

MonthMax == 12

MonthDefault == 5

TempDefault == 25

RainDefault == 800

\* 6.5, in tenths
PhDefault == 65

Widgets(m) == [month |-> m, temp |-> TempDefault, rain |-> RainDefault, ph |-> PhDefault]

----------------------------------------------------------------------------
(* The script *)

Init ==
    /\ csvKind \in FileKinds
    /\ csvHeader \in Headers(csvKind)
    /\ csvCrops \in CropSets(csvKind)
    /\ pkl \in PklStates
    /\ sklearnStrict \in BOOLEAN
    /\ cache = NoDf
    /\ df = NoDf
    /\ tried = <<>>
    /\ model = NoModel
    /\ selected_cols = NoMap
    /\ inputs = Widgets(MonthDefault)
    /\ clicked = FALSE
    /\ crop = ""
    /\ ui = <<>>
    /\ pc = "load"
    /\ found = "none"
    /\ runs = 0
    /\ trainTotal = 0

\* df = load_data() under st.cache_data, then st.success, or except Exception:
\* st.error, st.stop.  st.stop raises a BaseException, which except Exception
\* does not catch.
LoadData ==
    /\ pc = "load"
    /\ LET r == load_data(csvKind)
       IN  IF cache.loaded
           THEN /\ df' = cache
                /\ ui' = Append(ui, Show("load_success"))
                /\ pc' = "widgets"
                /\ UNCHANGED <<cache, tried>>
           ELSE /\ tried' = r.tried
                /\ IF r.end = "ok"
                   THEN /\ df' = Frame(csvHeader, csvCrops)
                        /\ cache' = df'
                        /\ ui' = Append(ui, Show("load_success"))
                        /\ pc' = "widgets"
                   ELSE /\ ui' = Append(ui, Show(IF r.end = "exhausted"
                                                 THEN "load_error" ELSE "load_failed"))
                        /\ pc' = "stopped"
                        /\ UNCHANGED <<df, cache>>
    /\ UNCHANGED <<env, pkl, model, selected_cols, inputs, clicked, crop, found, runs, trainTotal>>

\* the sidebar widgets and st.button
Sidebar ==
    /\ pc = "widgets"
    /\ \E m \in {MonthMin, MonthMax}, b \in BOOLEAN :
         /\ inputs' = Widgets(m)
         /\ clicked' = b
         /\ pc' = IF b THEN "joblib_load" ELSE "tail"
    /\ UNCHANGED <<env, pkl, cache, df, tried, model, selected_cols, crop, ui, found, runs,
                   trainTotal>>

\* A variant that never looks at model.pkl and trains on every request.
JoblibLoadRetrains ==
    /\ pc = "joblib_load"
    /\ found' = pkl.kind
    /\ pc' = "train"
    /\ UNCHANGED <<env, pkl, cache, df, tried, model, selected_cols, inputs, clicked, crop, ui,
                   runs, trainTotal>>

\* try: model = joblib.load('model.pkl'); except FileNotFoundError: train_model(df)
\* any other exception of joblib.load leaves the script
JoblibLoad ==
    /\ pc = "joblib_load"
    /\ found' = pkl.kind
    /\ IF pkl.kind = "absent" THEN pc' = "train" /\ model' = model
       ELSE IF pkl.kind = "corrupt" THEN pc' = "exception" /\ model' = model
       ELSE pc' = "predict" /\ model' = pkl
    /\ UNCHANGED <<env, pkl, cache, df, tried, selected_cols, inputs, clicked, crop, ui, runs,
                   trainTotal>>

\* train_model(df): resolve the columns (st.error, st.stop when a role has no
\* column), fit (ValueError on a frame with no row, raised inside the except
\* clause, so nothing catches it), joblib.dump, return model
TrainModel ==
    /\ pc = "train"
    /\ LET r == Resolve(df.columns)
           s == r.selected
           m == Fitted(<<s["month"], s["temp"], s["rain"], s["ph"]>>, df.crops)
       IN  /\ selected_cols' = s
           /\ IF ~r.ok
              THEN /\ ui' = Append(ui, Msg("missing_column", "", r.names))
                   /\ pc' = "stopped"
                   /\ UNCHANGED <<model, pkl, trainTotal>>
              ELSE IF df.crops = {}
              THEN /\ pc' = "exception"
                   /\ UNCHANGED <<model, pkl, trainTotal, ui>>
              ELSE /\ model' = m
                   /\ pkl' = m
                   /\ trainTotal' = trainTotal + 1
                   /\ pc' = "predict"
                   /\ ui' = ui
    /\ UNCHANGED <<env, cache, df, tried, inputs, clicked, crop, found, runs>>

\* input_data = DataFrame(..., columns=[...]); crop = model.predict(input_data)[0];
\* st.success.  A scikit-learn that checks feature names raises ValueError when
\* the names differ from those seen in fit; except Exception shows it.
\* The tree is opaque: it returns one of its classes.
Predict ==
    /\ pc = "predict"
    /\ IF sklearnStrict /\ model.features # InputColumns
       THEN /\ ui' = Append(ui, Show("predict_error"))
            /\ pc' = "tail"
            /\ crop' = crop
       ELSE \E c \in model.classes :
              /\ crop' = c
              /\ ui' = Append(ui, Msg("recommend", c, <<>>))
              /\ pc' = "describe"
    /\ UNCHANGED <<env, pkl, cache, df, tried, model, selected_cols, inputs, clicked, found,
                   runs, trainTotal>>

\* crop_info = df[df[LookupColumn] == crop].iloc[0] and the two panels; a
\* KeyError or IndexError goes to except Exception: st.error
Describe ==
    /\ pc = "describe"
    /\ LET cols == Range(df.columns)
           fail == Show("predict_error")
       IN  ui' = IF LookupColumn \notin cols THEN Append(ui, fail)
                 ELSE IF crop \notin df.crops THEN Append(ui, fail)
                 ELSE IF ~(Col1Columns \subseteq cols) THEN Append(ui, fail)
                 ELSE IF ~(Col2Columns \subseteq cols)
                      THEN ui \o <<Msg("col1", crop, <<>>), fail>>
                 ELSE ui \o <<Msg("col1", crop, <<>>), Msg("col2", crop, <<>>)>>
    /\ pc' = "tail"
    /\ UNCHANGED <<env, pkl, cache, df, tried, model, selected_cols, inputs, clicked, crop,
                   found, runs, trainTotal>>

\* st.expander with st.dataframe(df), st.caption: the script run ends
Footer ==
    /\ pc = "tail"
    /\ ui' = ui \o <<Show("expander"), Show("caption")>>
    /\ pc' = "idle"
    /\ UNCHANGED <<env, pkl, cache, df, tried, model, selected_cols, inputs, clicked, crop,
                   found, runs, trainTotal>>

Ended == {"idle", "stopped", "exception"}

\* the user touches a widget: Streamlit runs the script again from the top
Rerun ==
    /\ pc \in Ended
    /\ runs < MaxRuns
    /\ runs' = runs + 1
    /\ pc' = "load"
    /\ ui' = <<>>
    /\ df' = NoDf
    /\ tried' = <<>>
    /\ model' = NoModel
    /\ selected_cols' = NoMap
    /\ clicked' = FALSE
    /\ crop' = ""
    /\ found' = "none"
    /\ UNCHANGED <<env, pkl, cache, inputs, trainTotal>>

Next ==
    \/ LoadData
    \/ Sidebar
    \/ JoblibLoad
    \/ TrainModel
    \/ Predict
    \/ Describe
    \/ Footer
    \/ Rerun

Spec == Init /\ [][Next]_vars

----------------------------------------------------------------------------
(* The normalisation on arbitrary labels: every label of at most MaxLen atoms *)
(* over the four characters the normalisation looks at and one other          *)
(* character, as the only column of a file in each encoding that loads.       *)

Alphabet == {"a", SP, TAB, LP, RP}

Labels == UNION {[1..n -> Alphabet] : n \in 1..MaxLen}

InitNorm ==
    /\ csvKind \in LoadableKinds
    /\ csvHeader \in {<<l>> : l \in Labels}
    /\ csvCrops = {"Rice"}
    /\ pkl = Absent
    /\ sklearnStrict = FALSE
    /\ cache = NoDf
    /\ df = NoDf
    /\ tried = <<>>
    /\ model = NoModel
    /\ selected_cols = NoMap
    /\ inputs = Widgets(MonthDefault)
    /\ clicked = FALSE
    /\ crop = ""
    /\ ui = <<>>
    /\ pc = "load"
    /\ found = "none"
    /\ runs = 0
    /\ trainTotal = 0

SpecNorm == InitNorm /\ [][LoadData]_vars

----------------------------------------------------------------------------
(* Claims *)

Roles == Range(RoleOrder)

Present(role, columns) == {i \in 1..Len(col_mapping[role]) : col_mapping[role][i] \in Range(columns)}

AllRolesPresent(columns) == \A r \in Roles : Present(r, columns) # {}

LastShown == IF ui = <<>> THEN Show("nothing") ELSE ui[Len(ui)]

RequestEnded == clicked /\ pc \in Ended

\* C1 as stated: a request that finds no artifact, and out of which no
\* exception escapes, has trained and persisted a model by the time it ends.
C1_AbsentThenPersisted ==
    (RequestEnded /\ found = "absent" /\ pc # "exception") => pkl.kind = "model"

\* C1 as amended: train_model is entered exactly from a joblib.load that finds
\* no artifact; a train_model that goes on to prediction has written the model
\* it returns to model.pkl, one that does not has written nothing; and an
\* artifact that exists is never trained over.
C1_TrainsIffAbsent ==
    [][ /\ (pc = "joblib_load") => ((pc' = "train") <=> (pkl.kind = "absent"))
        /\ (pc' = "train") => (pc \in {"joblib_load", "train"})
        /\ (pc = "train" /\ pc' = "predict") => (pkl' = model' /\ pkl'.kind = "model")
        /\ (pc = "train" /\ pc' # "predict") => (pkl' = Absent)
        /\ (pkl.kind # "absent") => (pkl' = pkl) ]_vars

\* a later request meets the artifact an earlier request of the session trained
C1_LaterRequestReuses == runs >= 1 /\ trainTotal = 1 /\ found = "model" /\ pc = "predict"

\* C2: an artifact that exists but cannot be loaded sends the request to
\* train_model, as a missing artifact does.
C2_UnloadableRetrains == [][(pc = "joblib_load" /\ pkl.kind = "corrupt") => (pc' = "train")]_vars

\* C3: train_model on a frame in which some role has no alias among the columns
\* halts with the error naming the aliases of a role that has none, fits no
\* model and leaves model.pkl as it was; on any other frame it does not halt so.
C3_MissingRoleHaltsBeforeFit ==
    [][ (pc = "train") =>
          IF AllRolesPresent(df.columns)
          THEN pc' # "stopped"
          ELSE /\ pc' = "stopped"
               /\ pkl' = pkl
               /\ model' = NoModel
               /\ trainTotal' = trainTotal
               /\ ui' = Append(ui, LastShown')
               /\ LastShown'.kind = "missing_column"
               /\ \E r \in Roles : /\ LastShown'.names = col_mapping[r]
                                   /\ Present(r, df.columns) = {} ]_vars

\* a request halted by a role without column, nothing persisted
C3_HaltedOnMissingRole == pc = "stopped" /\ LastShown.kind = "missing_column" /\ pkl = Absent

\* C4: a request whose predicted label has no row in the frame (the frame has
\* rows, and the column the lookup filters on) shows no recommendation as a
\* success.
C4_NoSuccessWithoutRecord ==
    (/\ RequestEnded
     /\ LookupColumn \in Range(df.columns)
     /\ df.crops # {}
     /\ crop # ""
     /\ crop \notin df.crops) => "recommend" \notin Kinds(ui)

\* C5: a request ends with its script run completed: nothing leaves the handler
\* uncaught, and a failure is on display as an error.
C5_EveryFailureCaught ==
    RequestEnded =>
        /\ pc # "exception"
        /\ ("col2" \in Kinds(ui) \/ Kinds(ui) \cap {"predict_error", "missing_column"} # {})

\* C6: a request ends in exactly one terminal state: the success notice or the
\* error report, never both and never neither.
C6_ExactlyOneTerminal ==
    RequestEnded => (("recommend" \in Kinds(ui)) # ("predict_error" \in Kinds(ui)))

\* C7: a load that fails has handed all four encodings to read_csv.
C7_FailsAfterAllFour == (pc = "stopped" /\ ~df.loaded) => tried = encodings

\* C8: every column name of a loaded frame has no white space at either end
\* and holds no space and no parenthesis.
C8_ColumnsClean ==
    df.loaded =>
        \A i \in 1..Len(df.columns) :
            LET c == df.columns[i]
            IN  /\ c # <<>> => (c[1] \notin Whitespace /\ c[Len(c)] \notin Whitespace)
                /\ Range(c) \cap {SP, LP, RP} = {}

\* C9: every column train_model selects for a role is the alias of that role
\* that is a column of the frame and has no earlier-listed alias that is one;
\* a train_model that returns has selected one for each of the five roles and
\* fitted on the four feature roles' columns in the order month, temp, rain, ph.
C9_FirstAliasWins ==
    /\ \A r \in DOMAIN selected_cols :
          \E i \in Present(r, df.columns) :
              /\ selected_cols[r] = col_mapping[r][i]
              /\ \A j \in Present(r, df.columns) : i <= j
    /\ (found = "absent" /\ pc \in {"predict", "describe", "tail", "idle"}) =>
          /\ DOMAIN selected_cols = Roles
          /\ model.features = <<selected_cols["month"], selected_cols["temp"],
                                selected_cols["rain"], selected_cols["ph"]>>

Position(name, columns) == CHOOSE i \in 1..Len(columns) : columns[i] = name

\* a role with two aliases among the columns, the later-listed alias in the
\* earlier column, and training done
C9_TwoAliasesPresent ==
    /\ pc = "predict"
    /\ found = "absent"
    /\ \E r \in DOMAIN selected_cols : \E j \in Present(r, df.columns) :
          /\ col_mapping[r][j] # selected_cols[r]
          /\ Position(col_mapping[r][j], df.columns) < Position(selected_cols[r], df.columns)

\* C10: after training, the feature row names the columns the model was fitted
\* on and the record lookup filters on the resolved crop column.
C10_RoleKeyedInference ==
    (pc = "predict" /\ found = "absent") =>
        /\ InputColumns = model.features
        /\ LookupColumn = selected_cols["crop"]

====
